---- MODULE Spec2Model ----
(***************************************************************************)
(* Model of app/utils.cc of backscrub: fourCcFromString,                   *)
(* convert_rgb_to_yuyv, alpha_blend and resolve_path.                      *)
(*                                                                         *)
(* Strings are sequences of character codes (ASCII), images are flat byte  *)
(* sequences indexed from 1 (offset k of the C buffer is element k+1).     *)
(* Each function has its own specification; the variables of the other     *)
(* functions stay at their idle values.                                    *)
(***************************************************************************)
EXTENDS Integers, Sequences, FiniteSets, TLC

VARIABLES
    \* fourCcFromString
    fc_in, fc_pc, fc_ret,
    \* convert_rgb_to_yuyv
    yv_rows, yv_cols, ydata, udata, vdata, yv_planes0, outdata, yv_writes, yv_oob,
    yv_i, yv_pc,
    \* alpha_blend
    srca, srcb, mask, ndebug, out, ab_writes, ab_oob, pix, ab_pc,
    \* resolve_path
    provided, type, env, exe, fs, result, bsp, pos, probes, rp_pc, rp_ret

fcVars == <<fc_in, fc_pc, fc_ret>>
yvVars ==
    <<yv_rows, yv_cols, ydata, udata, vdata, yv_planes0, outdata, yv_writes, yv_oob,
      yv_i, yv_pc>>
abVars == <<srca, srcb, mask, ndebug, out, ab_writes, ab_oob, pix, ab_pc>>
rpVars == <<provided, type, env, exe, fs, result, bsp, pos, probes, rp_pc, rp_ret>>
vars == <<fcVars, yvVars, abVars, rpVars>>

\* ------------------------------------------------------------------------
\* Bounds
\* ------------------------------------------------------------------------
\* longest fourcc input string (covers the lengths 0, 1..4, 5..7, 8 and >8)
MaxLen == 9
\* largest pixel count of a converter input
MaxN == 4
\* largest pixel count of a compositor input
MaxPix == 2
\* most readable files in a filesystem state of the resolver
MaxFiles == 2

\* ------------------------------------------------------------------------
\* Generic helpers
\* ------------------------------------------------------------------------
Min(S) == CHOOSE x \in S : \A y \in S : x <= y
Max(S) == CHOOSE x \in S : \A y \in S : x >= y

\* values of a C cast to uint8_t
U8(x) == x % 256

\* idle values of the variables a specification does not use
fcIdle == fc_in = <<>> /\ fc_pc = "idle" /\ fc_ret = [kind |-> "none"]
yvIdle ==
    /\ yv_rows = 0 /\ yv_cols = 0
    /\ ydata = <<>> /\ udata = <<>> /\ vdata = <<>> /\ yv_planes0 = <<>>
    /\ outdata = <<>> /\ yv_writes = <<>> /\ yv_oob = {} /\ yv_i = 0 /\ yv_pc = "idle"
NoMat == [rows |-> 0, cols |-> 0, type |-> 0, data |-> <<>>]
abIdle ==
    /\ srca = NoMat /\ srcb = NoMat /\ mask = NoMat /\ ndebug = FALSE
    /\ out = NoMat /\ ab_writes = <<>> /\ ab_oob = {} /\ pix = 0 /\ ab_pc = "idle"
rpIdle ==
    /\ provided = <<>> /\ type = <<>> /\ env = <<>> /\ exe = <<>>
    /\ fs = {} /\ result = <<>> /\ bsp = <<>> /\ pos = 0 /\ probes = <<>>
    /\ rp_pc = "idle" /\ rp_ret = [kind |-> "none", path |-> <<>>]

\* ------------------------------------------------------------------------
\* fourCcFromString                                      (utils.cc 15-39)
\* ------------------------------------------------------------------------
\* the character codes the inputs are drawn from: 'a' 'G' '7' (hex digits,
\* letters of both cases, a letter that is no hex digit)
FourCcAlphabet == {97, 71, 55}

\* ::toupper in the "C" locale, for codes 0..127
toupper(c) == IF c >= 97 /\ c <= 122 THEN c - 32 ELSE c

\* isspace in the "C" locale: \t \n \v \f \r and space
isspace(c) == (c >= 9 /\ c <= 13) \/ c = 32

IsHexDigit(c) == (c >= 48 /\ c <= 57) \/ (c >= 65 /\ c <= 70) \/ (c >= 97 /\ c <= 102)

HexDigitValue(c) ==
    IF c >= 48 /\ c <= 57 THEN c - 48
    ELSE IF c >= 65 /\ c <= 70 THEN c - 55
    ELSE c - 87

\* cv::VideoWriter::fourcc(c1, c2, c3, c4):
\*   (c1 & 255) + ((c2 & 255) << 8) + ((c3 & 255) << 16) + ((c4 & 255) << 24)
cv_fourcc(c1, c2, c3, c4) ==
    (c1 % 256) + (c2 % 256) * 256 + (c3 % 256) * 65536 + (c4 % 256) * 16777216

\* first index >= i of s that holds no white space, Len(s)+1 when there is none
RECURSIVE SkipSpace(_, _)
SkipSpace(s, i) ==
    IF i <= Len(s) /\ isspace(s[i]) THEN SkipSpace(s, i + 1) ELSE i

\* first index >= i of s that holds no hex digit, Len(s)+1 when there is none
RECURSIVE SkipHex(_, _)
SkipHex(s, i) ==
    IF i <= Len(s) /\ IsHexDigit(s[i]) THEN SkipHex(s, i + 1) ELSE i

\* strtol accumulates in a long: the magnitude of the hex digits s[i..j-1],
\* most significant first, kept as <<high part, low 16 bits>> so that values
\* beyond the int range stay representable
RECURSIVE HexAccumulate(_, _, _, _)
HexAccumulate(s, i, j, acc) ==
    IF i >= j THEN acc
    ELSE LET low == acc[2] * 16 + HexDigitValue(s[i])
         IN  HexAccumulate(s, i + 1, j, <<acc[1] * 16 + (low \div 65536), low % 65536>>)

\* mag <= INT_MAX, resp. -mag >= INT_MIN, for a magnitude <<high, low>>
FitsIntPositive(mag) == mag[1] <= 32767
FitsIntNegative(mag) == mag[1] < 32768 \/ (mag[1] = 32768 /\ mag[2] = 0)

\* std::stoi(in, nullptr, 16): strtol skips white space, takes an optional
\* sign and an optional 0x prefix, converts the longest run of hex digits
\* and ignores what follows; stoi throws invalid_argument when nothing was
\* converted and out_of_range when the value does not fit an int.
stoi16(s) ==
    LET i0 == SkipSpace(s, 1)
        neg == i0 <= Len(s) /\ s[i0] = 45
        i1 == IF i0 <= Len(s) /\ s[i0] \in {43, 45} THEN i0 + 1 ELSE i0
        pfx == /\ i1 + 2 <= Len(s)
               /\ s[i1] = 48
               /\ s[i1 + 1] \in {120, 88}
               /\ IsHexDigit(s[i1 + 2])
        i2 == IF pfx THEN i1 + 2 ELSE i1
        j == SkipHex(s, i2)
        mag == HexAccumulate(s, i2, j, <<0, 0>>)
    IN  IF j = i2 THEN [kind |-> "throw", what |-> "invalid_argument"]
        ELSE IF neg
             THEN IF FitsIntNegative(mag)
                  THEN [kind |-> "value", v |-> (0 - mag[1]) * 65536 - mag[2]]
                  ELSE [kind |-> "throw", what |-> "out_of_range"]
        ELSE IF FitsIntPositive(mag)
             THEN [kind |-> "value", v |-> mag[1] * 65536 + mag[2]]
        ELSE [kind |-> "throw", what |-> "out_of_range"]

\* the array a of lines 24-27: spaces, overwritten by the upper-cased input
FourCcArrayKeepCase(in) == [k \in 1..4 |-> IF k <= Len(in) THEN in[k] ELSE 32]
FourCcArray(in) == [k \in 1..4 |-> IF k <= Len(in) THEN toupper(in[k]) ELSE 32]

fourCcFromString(in) ==
    IF Len(in) = 0 THEN [kind |-> "value", v |-> 0]
    ELSE IF Len(in) <= 4
         THEN LET a == FourCcArray(in)
              IN  [kind |-> "value", v |-> cv_fourcc(a[1], a[2], a[3], a[4])]
    ELSE IF Len(in) = 8 THEN stoi16(in)
    ELSE [kind |-> "value", v |-> 0]

InitFourCc ==
    /\ \E n \in 0..MaxLen : fc_in \in [1..n -> FourCcAlphabet]
    /\ fc_pc = "call"
    /\ fc_ret = [kind |-> "none"]
    /\ yvIdle /\ abIdle /\ rpIdle

FourCcCall ==
    /\ fc_pc = "call"
    /\ fc_ret' = fourCcFromString(fc_in)
    /\ fc_pc' = "done"
    /\ UNCHANGED <<fc_in, yvVars, abVars, rpVars>>

NextFourCc == FourCcCall

SpecFourCc == InitFourCc /\ [][NextFourCc]_vars

\* ---- properties of fourCcFromString ----
IsLower(c) == c >= 97 /\ c <= 122
IsUpper(c) == c >= 65 /\ c <= 90
SwapCase(s) ==
    [k \in 1..Len(s) |-> IF IsLower(s[k]) THEN s[k] - 32
                         ELSE IF IsUpper(s[k]) THEN s[k] + 32 ELSE s[k]]

\* the digits of a hexadecimal literal, by position
HexDigits == <<48, 49, 50, 51, 52, 53, 54, 55, 56, 57, 97, 98, 99, 100, 101, 102>>
DigitOf(c) ==
    LET lc == IF IsUpper(c) THEN c + 32 ELSE c
    IN  (CHOOSE d \in 1..16 : HexDigits[d] = lc) - 1
AllHex(s) == \A k \in 1..Len(s) : \E d \in 1..16 : HexDigits[d] \in {s[k], s[k] + 32}

\* an 8-character string that is a complete hexadecimal literal of a value
\* that fits the signed 32-bit result
ValidHex8(s) == Len(s) = 8 /\ AllHex(s) /\ DigitOf(s[1]) <= 7

Weight16 == <<268435456, 16777216, 1048576, 65536, 4096, 256, 16, 1>>
RECURSIVE HexLiteralValue(_, _)
HexLiteralValue(s, k) ==
    IF k > 8 THEN 0 ELSE DigitOf(s[k]) * Weight16[k] + HexLiteralValue(s, k + 1)

\* the tag of up to four characters: upper-cased, right-padded with spaces,
\* first character in the lowest byte
PaddedUpper(s, k) ==
    IF k > Len(s) THEN 32 ELSE IF IsLower(s[k]) THEN s[k] - 32 ELSE s[k]
TagPack(s) ==
    PaddedUpper(s, 1) + 256 * (PaddedUpper(s, 2)
        + 256 * (PaddedUpper(s, 3) + 256 * PaddedUpper(s, 4)))

\* C8: every 8-character input that is not a complete valid hexadecimal
\* literal of a 32-bit code fails with InvalidFourCC: no generic parse error
\* is propagated and no code is computed from a leading hex prefix.
C8_InvalidHexFailsTyped ==
    (fc_pc = "done" /\ Len(fc_in) = 8 /\ ~ValidHex8(fc_in))
        => fc_ret = [kind |-> "throw", what |-> "InvalidFourCC"]

\* C10: the result is determined by the input length: empty gives 0; length
\* 1..4 gives the pack of the upper-cased, space-padded characters (the same
\* for the input with its letter case swapped); a valid 8-character hex
\* string gives its numeric value; lengths 5, 6, 7 and above 8 give 0.
C10_ResultByLength ==
    fc_pc = "done" =>
        /\ Len(fc_in) = 0 => fc_ret = [kind |-> "value", v |-> 0]
        /\ Len(fc_in) \in 1..4 =>
                /\ fc_ret = [kind |-> "value", v |-> TagPack(fc_in)]
                /\ fc_ret = fourCcFromString(SwapCase(fc_in))
        /\ ValidHex8(fc_in) =>
                fc_ret = [kind |-> "value", v |-> HexLiteralValue(fc_in, 1)]
        /\ (Len(fc_in) \in 5..7 \/ Len(fc_in) > 8) =>
                fc_ret = [kind |-> "value", v |-> 0]

\* a short tag with a lower-case letter has been packed
C10_Witness ==
    /\ fc_pc = "done"
    /\ Len(fc_in) \in 1..3
    /\ \E k \in 1..Len(fc_in) : IsLower(fc_in[k])
    /\ fc_ret.kind = "value"

\* ------------------------------------------------------------------------
\* convert_rgb_to_yuyv                                   (utils.cc 42-65)
\* ------------------------------------------------------------------------
\* cv::cvtColor and cv::split belong to the image library: the model starts
\* from the three planes they deliver (line 46) and the freshly allocated,
\* not yet written, two-channel output of line 47.
LumaVals == {16, 235}
ChromaVals == {0, 255}
\* what a read past the end of a plane may deliver
OobBytes == {0, 255}
\* content of an output byte that was never written
UNINIT == -1

YuyvShapes == {rc \in (1..MaxN) \X (1..MaxN) : rc[1] * rc[2] <= MaxN}

\* yuyv.total()
YuyvTotal == yv_rows * yv_cols

\* the values a read of buf[k] (C offset k) can deliver
PlaneRead(buf, k) == IF k < Len(buf) THEN {buf[k + 1]} ELSE OobBytes
IsOob(buf, k) == k >= Len(buf)

\* the four bytes of one pixel pair, lines 58-61
YuyvGroupSwapped(y0, y1, u, v) == <<y0, u, y1, v>>
YuyvGroup(y0, y1, u, v) == <<y0, v, y1, u>>

\* chroma average of lines 55-56: int arithmetic, then the uint8_t cast
ChromaAvg(c0, c1) == U8((c0 + c1) \div 2)

\* buf[k] = b (C offset k) on the state st = [buf, cnt, oob] of the output
\* buffer called name
Store(st, name, k, b) ==
    IF k < Len(st.buf)
    THEN [st EXCEPT !.buf[k + 1] = b, !.cnt[k + 1] = @ + 1]
    ELSE [st EXCEPT !.oob = @ \cup {[op |-> "write", buf |-> name, off |-> k]}]

RECURSIVE StoreAll(_, _, _, _, _)
StoreAll(st, name, k, bytes, n) ==
    IF n > Len(bytes) THEN st
    ELSE StoreAll(Store(st, name, k + n - 1, bytes[n]), name, k, bytes, n + 1)

OobReads(i) ==
    {[op |-> "read", buf |-> b[1], off |-> i + 1] :
        b \in {x \in {<<"ydata", ydata>>, <<"udata", udata>>, <<"vdata", vdata>>} :
                   IsOob(x[2], i + 1)}}

InitYuyv ==
    /\ \E rc \in YuyvShapes :
          /\ yv_rows = rc[1]
          /\ yv_cols = rc[2]
          /\ ydata \in [1..(rc[1] * rc[2]) -> LumaVals]
          /\ udata \in [1..(rc[1] * rc[2]) -> ChromaVals]
          /\ vdata \in [1..(rc[1] * rc[2]) -> ChromaVals]
          /\ outdata = [k \in 1..(2 * rc[1] * rc[2]) |-> UNINIT]
          /\ yv_writes = [k \in 1..(2 * rc[1] * rc[2]) |-> 0]
    /\ yv_planes0 = <<ydata, udata, vdata>>
    /\ yv_oob = {}
    /\ yv_i = 0
    /\ yv_pc = "loop"
    /\ fcIdle /\ abIdle /\ rpIdle

\* one iteration of the loop of lines 54-62; an access outside a buffer is
\* undefined: the iteration either faults or goes on with whatever the read
\* delivered and with the stray write done
YuyvLoop ==
    /\ yv_pc = "loop"
    /\ yv_i < YuyvTotal
    /\ \E fault \in (IF OobReads(yv_i) = {} THEN {FALSE} ELSE BOOLEAN),
          y1 \in PlaneRead(ydata, yv_i + 1), u1 \in PlaneRead(udata, yv_i + 1),
          v1 \in PlaneRead(vdata, yv_i + 1) :
          LET u == ChromaAvg(udata[yv_i + 1], u1)
              v == ChromaAvg(vdata[yv_i + 1], v1)
              st == StoreAll([buf |-> outdata, cnt |-> yv_writes,
                              oob |-> yv_oob \cup OobReads(yv_i)],
                             "outdata", 2 * yv_i, YuyvGroup(ydata[yv_i + 1], y1, u, v), 1)
          IN  IF fault
              THEN /\ yv_pc' = "segv"
                   /\ yv_oob' = yv_oob \cup OobReads(yv_i)
                   /\ UNCHANGED <<outdata, yv_writes, yv_i>>
              ELSE /\ outdata' = st.buf
                   /\ yv_writes' = st.cnt
                   /\ yv_oob' = st.oob
                   /\ yv_i' = yv_i + 2
                   /\ yv_pc' = yv_pc
    /\ UNCHANGED <<yv_rows, yv_cols, ydata, udata, vdata, yv_planes0>>
    /\ UNCHANGED <<fcVars, abVars, rpVars>>

\* loop exit and return of line 64
YuyvReturn ==
    /\ yv_pc = "loop"
    /\ yv_i >= YuyvTotal
    /\ yv_pc' = "done"
    /\ UNCHANGED <<yv_rows, yv_cols, ydata, udata, vdata, yv_planes0, outdata,
                   yv_writes, yv_oob, yv_i>>
    /\ UNCHANGED <<fcVars, abVars, rpVars>>

NextYuyv == YuyvLoop \/ YuyvReturn

SpecYuyv == InitYuyv /\ [][NextYuyv]_vars

\* ---- properties of convert_rgb_to_yuyv ----
\* C4: an input with an odd total pixel count is rejected with
\* InvalidDimensions: nothing is read past the planes, nothing is written
\* past the output buffer, and no partly filled buffer is returned.
C4_OddRejected ==
    (YuyvTotal % 2 = 1) =>
        /\ yv_oob = {}
        /\ \A k \in 1..Len(yv_writes) : yv_writes[k] = 0
        /\ yv_pc \in {"loop", "InvalidDimensions"}
        /\ yv_pc = "loop" => yv_i = 0
        /\ \A k \in 1..Len(outdata) : outdata[k] = UNINIT

\* C7: for an even pixel count N the output holds exactly 2N bytes, the four
\* bytes at 2i..2i+3 are Y[i], (V[i]+V[i+1]) div 2, Y[i+1], (U[i]+U[i+1]) div 2
\* for every even i < N, every output byte is written exactly once and the
\* planes are unchanged.
C7_PackedLayout ==
    (yv_pc = "done" /\ YuyvTotal % 2 = 0) =>
        LET Y == yv_planes0[1]
            U == yv_planes0[2]
            V == yv_planes0[3]
        IN  /\ Len(outdata) = 2 * YuyvTotal
            /\ \A i \in {j \in 0..(YuyvTotal - 1) : j % 2 = 0} :
                  /\ outdata[2 * i + 1] = Y[i + 1]
                  /\ outdata[2 * i + 2] = (V[i + 1] + V[i + 2]) \div 2
                  /\ outdata[2 * i + 3] = Y[i + 2]
                  /\ outdata[2 * i + 4] = (U[i + 1] + U[i + 2]) \div 2
            /\ \A k \in 1..Len(outdata) : yv_writes[k] = 1
            /\ yv_oob = {}
            /\ <<ydata, udata, vdata>> = yv_planes0

\* a four-pixel image whose chroma pairs differ has been packed
C7_Witness ==
    /\ yv_pc = "done"
    /\ YuyvTotal = 4
    /\ udata[1] # udata[2]
    /\ vdata[3] # vdata[4]
    /\ udata[1] # vdata[1]

\* ------------------------------------------------------------------------
\* alpha_blend                                           (utils.cc 67-99)
\* ------------------------------------------------------------------------
\* cv::Mat type codes of the 8-bit layouts: CV_MAKETYPE(CV_8U, channels)
CV_8UC1 == 0
CV_8UC3 == 16
\* channels of an 8-bit type code
Channels(t) == (t \div 8) + 1

\* colours and mask weights the inputs are drawn from
Palette == {<<0, 255, 128>>, <<255, 1, 254>>}
MaskVals == {0, 127, 128, 255}

\* interleaved bytes of a sequence of pixels
Interleave(px) ==
    [k \in 1..(3 * Len(px)) |-> px[((k - 1) \div 3) + 1][((k - 1) % 3) + 1]]

BlendShapes == {rc \in (1..MaxPix) \X (1..MaxPix) : rc[1] * rc[2] <= MaxPix}

ColourMats(shapes, palette) ==
    UNION {{[rows |-> rc[1], cols |-> rc[2], type |-> CV_8UC3, data |-> Interleave(px)] :
               px \in [1..(rc[1] * rc[2]) -> palette]} : rc \in shapes}
GreyMats(shapes, vals) ==
    UNION {{[rows |-> rc[1], cols |-> rc[2], type |-> CV_8UC1, data |-> d] :
               d \in [1..(rc[1] * rc[2]) -> vals]} : rc \in shapes}

\* the seven assertions of lines 71-78
BlendPreconditions(a, b, m) ==
    /\ a.rows = b.rows
    /\ a.cols = b.cols
    /\ m.rows = a.rows
    /\ m.cols = a.cols
    /\ a.type = CV_8UC3
    /\ b.type = CV_8UC3
    /\ m.type = CV_8UC1

\* cv::Mat::zeros(size, type)
MatZeros(rows, cols, t) ==
    [rows |-> rows, cols |-> cols, type |-> t,
     data |-> [k \in 1..(rows * cols * Channels(t)) |-> 0]]

\* line 90
BlendWeightB256(aw) == 256 - aw
BlendWeightB(aw) == 255 - aw

\* lines 93-95: one channel byte
BlendByteShift(av, aw, bv, bw) == U8((av * aw + bv * bw) \div 256)
BlendByte(av, aw, bv, bw) == U8((av * aw + bv * bw) \div 255)

\* the values a read of *ptr at C offset k of buf can deliver
MatRead(buf, k) == IF k < Len(buf) THEN {buf[k + 1]} ELSE OobBytes

\* the accesses of pixel pix that fall outside their buffers
BlendOob(p) ==
    {[op |-> "read", buf |-> "mask", off |-> p] : x \in {y \in {p} : y >= Len(mask.data)}}
    \cup {[op |-> "read", buf |-> "srca", off |-> k] :
              k \in {y \in (3 * p)..(3 * p + 2) : y >= Len(srca.data)}}
    \cup {[op |-> "read", buf |-> "srcb", off |-> k] :
              k \in {y \in (3 * p)..(3 * p + 2) : y >= Len(srcb.data)}}
    \cup {[op |-> "write", buf |-> "out", off |-> k] :
              k \in {y \in (3 * p)..(3 * p + 2) : y >= Len(out.data)}}

\* valid inputs only
InitBlend ==
    /\ \E rc \in BlendShapes :
          /\ srca \in ColourMats({rc}, Palette)
          /\ srcb \in ColourMats({rc}, Palette)
          /\ mask \in GreyMats({rc}, MaskVals)
    /\ ndebug \in BOOLEAN
    /\ out = NoMat
    /\ ab_writes = <<>>
    /\ ab_oob = {}
    /\ pix = 0
    /\ ab_pc = "entry"
    /\ fcIdle /\ yvIdle /\ rpIdle

\* lines 71-85: the assertions (compiled out under NDEBUG) and the
\* allocation of the zeroed output
BlendEntry ==
    /\ ab_pc = "entry"
    /\ IF ~ndebug /\ ~BlendPreconditions(srca, srcb, mask)
       THEN /\ ab_pc' = "abort"
            /\ UNCHANGED <<out, ab_writes>>
       ELSE /\ ab_pc' = "loop"
            /\ out' = MatZeros(srca.rows, srca.cols, srca.type)
            /\ ab_writes' = [k \in 1..(srca.rows * srca.cols * Channels(srca.type)) |-> 0]
    /\ UNCHANGED <<srca, srcb, mask, ndebug, ab_oob, pix>>
    /\ UNCHANGED <<fcVars, yvVars, rpVars>>

\* one iteration of the loop of lines 87-96; an access outside a buffer is
\* undefined: the iteration either faults or goes on with whatever the read
\* delivered and with the stray write done
BlendPixel ==
    /\ ab_pc = "loop"
    /\ pix < srca.rows * srca.cols
    /\ \E fault \in (IF BlendOob(pix) = {} THEN {FALSE} ELSE BOOLEAN),
          aw \in MatRead(mask.data, pix),
          a0 \in MatRead(srca.data, 3 * pix), a1 \in MatRead(srca.data, 3 * pix + 1),
          a2 \in MatRead(srca.data, 3 * pix + 2),
          b0 \in MatRead(srcb.data, 3 * pix), b1 \in MatRead(srcb.data, 3 * pix + 1),
          b2 \in MatRead(srcb.data, 3 * pix + 2) :
          LET bw == BlendWeightB(aw)
              bytes == <<BlendByte(a0, aw, b0, bw), BlendByte(a1, aw, b1, bw),
                         BlendByte(a2, aw, b2, bw)>>
              st == StoreAll([buf |-> out.data, cnt |-> ab_writes,
                              oob |-> ab_oob \cup BlendOob(pix)],
                             "out", 3 * pix, bytes, 1)
          IN  IF fault
              THEN /\ ab_pc' = "segv"
                   /\ ab_oob' = ab_oob \cup BlendOob(pix)
                   /\ UNCHANGED <<out, ab_writes, pix>>
              ELSE /\ out' = [out EXCEPT !.data = st.buf]
                   /\ ab_writes' = st.cnt
                   /\ ab_oob' = st.oob
                   /\ pix' = pix + 1
                   /\ ab_pc' = ab_pc
    /\ UNCHANGED <<srca, srcb, mask, ndebug>>
    /\ UNCHANGED <<fcVars, yvVars, rpVars>>

\* loop exit and return of line 98
BlendReturn ==
    /\ ab_pc = "loop"
    /\ pix >= srca.rows * srca.cols
    /\ ab_pc' = "done"
    /\ UNCHANGED <<srca, srcb, mask, ndebug, out, ab_writes, ab_oob, pix>>
    /\ UNCHANGED <<fcVars, yvVars, rpVars>>

NextBlend == BlendEntry \/ BlendPixel \/ BlendReturn

SpecBlend == InitBlend /\ [][NextBlend]_vars

\* any mix of shapes (1x1, 1x2, 2x1) and layouts, over fewer weights
AnyShapes == {<<1, 1>>, <<1, 2>>, <<2, 1>>}
SmallMaskVals == {0, 255}
AnyMats == ColourMats(AnyShapes, Palette) \cup GreyMats(AnyShapes, SmallMaskVals)

InitBlendAny ==
    /\ srca \in AnyMats
    /\ srcb \in AnyMats
    /\ mask \in AnyMats
    /\ ndebug \in BOOLEAN
    /\ out = NoMat
    /\ ab_writes = <<>>
    /\ ab_oob = {}
    /\ pix = 0
    /\ ab_pc = "entry"
    /\ fcIdle /\ yvIdle /\ rpIdle

SpecBlendAny == InitBlendAny /\ [][NextBlend]_vars

\* ---- properties of alpha_blend ----
\* C3: a call whose images differ in rows or columns, or whose layouts are
\* not 3-channel/3-channel/1-channel 8-bit, fails with DimensionMismatch or
\* InvalidLayout, and no output buffer is written, fully or partly.
C3_ViolationFailsTyped ==
    ~BlendPreconditions(srca, srcb, mask) =>
        /\ ab_pc \in {"entry", "DimensionMismatch", "InvalidLayout"}
        /\ out = NoMat
        /\ ab_oob = {}

\* C5: every output byte at pixel p, channel c is
\* (a[p][c]*w + b[p][c]*(255-w)) div 255 with w = mask[p]; it lies in 0..255;
\* a mask of 255 everywhere returns a, a mask of 0 everywhere returns b.
C5_BlendFormula ==
    ab_pc = "done" =>
        /\ Len(out.data) = 3 * srca.rows * srca.cols
        /\ \A p \in 0..(srca.rows * srca.cols - 1) : \A c \in 1..3 :
              LET w == mask.data[p + 1]
                  o == out.data[3 * p + c]
              IN  /\ o = (srca.data[3 * p + c] * w + srcb.data[3 * p + c] * (255 - w)) \div 255
                  /\ o \in 0..255
        /\ (\A p \in 1..Len(mask.data) : mask.data[p] = 255) => out.data = srca.data
        /\ (\A p \in 1..Len(mask.data) : mask.data[p] = 0) => out.data = srcb.data

\* two different images have been blended with a weight that is neither 0
\* nor 255
C5_Witness ==
    /\ ab_pc = "done"
    /\ srca.data # srcb.data
    /\ \E p \in 1..Len(mask.data) : mask.data[p] \in {127, 128}

\* C6: alpha_blend(a, b, m) is byte-identical to alpha_blend(b, a, m') with
\* m'[p] = 255 - m[p].
C6_NegatedMaskSwap ==
    ab_pc = "done" =>
        out.data =
            [k \in 1..(3 * srca.rows * srca.cols) |->
                LET aw == 255 - mask.data[((k - 1) \div 3) + 1]
                IN  BlendByte(srcb.data[k], aw, srca.data[k], BlendWeightB(aw))]

\* two different images have been blended under a mask with two different
\* weights
C6_Witness ==
    /\ ab_pc = "done"
    /\ srca.data # srcb.data
    /\ Len(mask.data) >= 2
    /\ mask.data[1] # mask.data[2]
    /\ mask.data[1] = 127

\* ------------------------------------------------------------------------
\* resolve_path                                         (utils.cc 113-194)
\* ------------------------------------------------------------------------
\* string literals of the function, as character codes
\* "/"
StrSlash == <<47>>
\* "/.local/share"
StrLocalShare == <<47, 46, 108, 111, 99, 97, 108, 47, 115, 104, 97, 114, 101>>
\* "/backscrub/"
StrBackscrub == <<47, 98, 97, 99, 107, 115, 99, 114, 117, 98, 47>>
\* "/share/backscrub/"
StrShareBackscrub ==
    <<47, 115, 104, 97, 114, 101, 47, 98, 97, 99, 107, 115, 99, 114, 117, 98, 47>>
\* _STR(INSTALL_PREFIX), set by the build: "/usr/local"
InstallPrefix == <<47, 117, 115, 114, 47, 108, 111, 99, 97, 108>>
\* sizeof(binloc)
BinlocSize == 1024
\* std::string::npos; size_t(0) - 1 is npos as well
NPOS == -1

\* getenv: a variable is unset (NULL) or holds a string
Unset == [set |-> FALSE, val |-> <<>>]
SetTo(v) == [set |-> TRUE, val |-> v]

\* the names asked for: "f", "d/f", "ab:f" (a URI), "c:f" (a drive letter)
ProvidedNames == {<<102>>, <<100, 47, 102>>, <<97, 98, 58, 102>>, <<99, 58, 102>>}
\* the category: "m"
TypeNames == {<<109>>}
\* BACKSCRUB_PATH: unset, "", "/p:/q", ":/p", "/q:"
SearchPathValues ==
    {Unset, SetTo(<<>>), SetTo(<<47, 112, 58, 47, 113>>), SetTo(<<58, 47, 112>>),
     SetTo(<<47, 113, 58>>)}
\* XDG_DATA_HOME: unset, "/x"
DataHomeValues == {Unset, SetTo(<<47, 120>>)}
\* HOME: unset, "/h"
HomeValues == {Unset, SetTo(<<47, 104>>)}
\* readlink("/proc/self/exe"): failure, a link longer than the buffer,
\* "/o/b/e", "/b/e", "/e"
ReadlinkResults ==
    {[n |-> -1, buf |-> <<>>], [n |-> BinlocSize, buf |-> <<>>],
     [n |-> 6, buf |-> <<47, 111, 47, 98, 47, 101>>],
     [n |-> 4, buf |-> <<47, 98, 47, 101>>],
     [n |-> 2, buf |-> <<47, 101>>]}

\* the directories a file of the category may be readable under
FsRoots ==
    {<<>>, <<47, 112>>, <<47, 113>>, <<47, 111>>,
     <<47, 120>> \o SubSeq(StrBackscrub, 1, 10),
     <<47, 104>> \o StrLocalShare \o SubSeq(StrBackscrub, 1, 10),
     StrLocalShare \o SubSeq(StrBackscrub, 1, 10),
     InstallPrefix \o SubSeq(StrShareBackscrub, 1, 16),
     <<47, 111>> \o SubSeq(StrShareBackscrub, 1, 16),
     SubSeq(StrShareBackscrub, 1, 16)}
FsUniverse(name, cat) ==
    {name} \cup {r \o StrSlash \o cat \o StrSlash \o name : r \in FsRoots}

isalpha(c) == (c >= 65 /\ c <= 90) \/ (c >= 97 /\ c <= 122)
isalnum(c) == isalpha(c) \/ (c >= 48 /\ c <= 57)
\* the bracket [[:alnum:]+-.] : alphanumerics and the range '+' .. '.'
SchemeChar(c) == isalnum(c) \/ (c >= 43 /\ c <= 46)
\* an ECMAScript '.' matches everything but a line terminator
DotChar(c) == c \notin {10, 13}

\* std::regex_match(s, "^[[:alpha:]][[:alnum:]+-.]{1,}:.*$")
IsUri(s) ==
    \E k \in 3..Len(s) :
        /\ s[k] = 58
        /\ isalpha(s[1])
        /\ \A j \in 2..(k - 1) : SchemeChar(s[j])
        /\ \A j \in (k + 1)..Len(s) : DotChar(s[j])

\* std::ifstream(path).good()
Readable(path) == path \in fs

\* provided.find('/') != npos
HasSeparatorBackslash(s) == \E k \in 1..Len(s) : s[k] = 92
HasSeparator(s) == \E k \in 1..Len(s) : s[k] = 47

\* s.rfind('/', from): the last C offset <= from that holds '/', or npos
RFindSlash(s, from) ==
    LET last == IF from = NPOS \/ from > Len(s) - 1 THEN Len(s) - 1 ELSE from
        hits == {k \in 0..last : s[k + 1] = 47}
    IN  IF hits = {} THEN NPOS ELSE Max(hits)

\* std::getline(stream, token, ':') on the unread rest of the stream:
\* fails on an exhausted stream, else reads up to the next ':' or the end
GetlineFails(rest) == rest = <<>>
GetlineCut(rest) ==
    LET colons == {k \in 1..Len(rest) : rest[k] = 58}
    IN  IF colons = {} THEN Len(rest) + 1 ELSE Min(colons)
GetlineToken(rest) == SubSeq(rest, 1, GetlineCut(rest) - 1)
GetlineRest(rest) == SubSeq(rest, GetlineCut(rest) + 1, Len(rest))

Returned(path) == [kind |-> "path", path |-> path]
NotFound == [kind |-> "nullopt", path |-> <<>>]
Crashed == [kind |-> "crash", path |-> <<>>]

InitResolve ==
    /\ provided \in ProvidedNames
    /\ type \in TypeNames
    /\ env \in [BACKSCRUB_PATH : SearchPathValues, XDG_DATA_HOME : DataHomeValues,
               HOME : HomeValues]
    /\ exe \in ReadlinkResults
    /\ fs \in {S \in SUBSET FsUniverse(provided, type) : Cardinality(S) <= MaxFiles}
    /\ result = <<>>
    /\ bsp = <<>>
    /\ pos = 0
    /\ probes = <<>>
    /\ rp_pc = "uri"
    /\ rp_ret = [kind |-> "none", path |-> <<>>]
    /\ fcIdle /\ yvIdle /\ abIdle

rpInputs == <<provided, type, env, exe, fs>>

\* lines 119-120
ResolveUri ==
    /\ rp_pc = "uri"
    /\ IF IsUri(provided)
       THEN rp_ret' = Returned(provided) /\ rp_pc' = "done"
       ELSE rp_ret' = rp_ret /\ rp_pc' = "literal"
    /\ UNCHANGED <<rpInputs, result, bsp, pos, probes>>
    /\ UNCHANGED <<fcVars, yvVars, abVars>>

\* lines 124-125
ResolveLiteral ==
    /\ rp_pc = "literal"
    /\ probes' = Append(probes, provided)
    /\ IF Readable(provided)
       THEN rp_ret' = Returned(provided) /\ rp_pc' = "done"
       ELSE rp_ret' = rp_ret /\ rp_pc' = "separator"
    /\ UNCHANGED <<rpInputs, result, bsp, pos>>
    /\ UNCHANGED <<fcVars, yvVars, abVars>>

\* lines 128-129
ResolveSeparator ==
    /\ rp_pc = "separator"
    /\ IF HasSeparator(provided)
       THEN rp_ret' = NotFound /\ rp_pc' = "done"
       ELSE rp_ret' = rp_ret /\ rp_pc' = "path_open"
    /\ UNCHANGED <<rpInputs, result, bsp, pos, probes>>
    /\ UNCHANGED <<fcVars, yvVars, abVars>>

\* lines 132-134
ResolvePathOpen ==
    /\ rp_pc = "path_open"
    /\ IF env.BACKSCRUB_PATH.set
       THEN bsp' = env.BACKSCRUB_PATH.val /\ rp_pc' = "path_loop"
       ELSE bsp' = bsp /\ rp_pc' = "data_home"
    /\ UNCHANGED <<rpInputs, result, pos, probes, rp_ret>>
    /\ UNCHANGED <<fcVars, yvVars, abVars>>

\* lines 136-141: one turn of the while loop, or its exit
ResolvePathLoop ==
    /\ rp_pc = "path_loop"
    /\ IF GetlineFails(bsp)
       THEN /\ rp_pc' = "data_home"
            /\ UNCHANGED <<result, bsp, probes, rp_ret>>
       ELSE LET r == GetlineToken(bsp) \o StrSlash \o type \o StrSlash \o provided
            IN  /\ result' = r
                /\ bsp' = GetlineRest(bsp)
                /\ probes' = Append(probes, r)
                /\ IF Readable(r)
                   THEN rp_ret' = Returned(r) /\ rp_pc' = "done"
                   ELSE rp_ret' = rp_ret /\ rp_pc' = rp_pc
    /\ UNCHANGED <<rpInputs, pos>>
    /\ UNCHANGED <<fcVars, yvVars, abVars>>

\* lines 145-149; with both variables unset, std::string() + (char*)NULL is
\* undefined: the call faults, or goes on with the bytes it found there
\* (here: none)
ResolveDataHome ==
    /\ rp_pc = "data_home"
    /\ \E fault \in (IF ~env.XDG_DATA_HOME.set /\ ~env.HOME.set THEN BOOLEAN ELSE {FALSE}) :
          IF fault
          THEN /\ rp_ret' = Crashed
               /\ rp_pc' = "done"
               /\ UNCHANGED <<result, probes>>
          ELSE LET root == IF env.XDG_DATA_HOME.set THEN env.XDG_DATA_HOME.val
                           ELSE env.HOME.val \o StrLocalShare
                   r == root \o StrBackscrub \o type \o StrSlash \o provided
               IN  /\ result' = r
                   /\ probes' = Append(probes, r)
                   /\ IF Readable(r)
                      THEN rp_ret' = Returned(r) /\ rp_pc' = "done"
                      ELSE rp_ret' = rp_ret /\ rp_pc' = "prefix"
    /\ UNCHANGED <<rpInputs, bsp, pos>>
    /\ UNCHANGED <<fcVars, yvVars, abVars>>

\* lines 152-155
ResolvePrefix ==
    /\ rp_pc = "prefix"
    /\ LET r == InstallPrefix \o StrShareBackscrub \o type \o StrSlash \o provided
       IN  /\ result' = r
           /\ probes' = Append(probes, r)
           /\ IF Readable(r)
              THEN rp_ret' = Returned(r) /\ rp_pc' = "done"
              ELSE rp_ret' = rp_ret /\ rp_pc' = "readlink"
    /\ UNCHANGED <<rpInputs, bsp, pos>>
    /\ UNCHANGED <<fcVars, yvVars, abVars>>

\* lines 159-179: locate the binary and cut its last two segments
ResolveReadlink ==
    /\ rp_pc = "readlink"
    /\ IF exe.n < 1 \/ exe.n >= BinlocSize
       THEN /\ rp_ret' = NotFound /\ rp_pc' = "done"
            /\ UNCHANGED <<result, pos>>
       ELSE LET p1 == RFindSlash(exe.buf, NPOS)
                p2 == RFindSlash(exe.buf, p1 - 1)
            IN  IF p1 = NPOS \/ p2 = NPOS
                THEN /\ rp_ret' = NotFound /\ rp_pc' = "done"
                     /\ result' = exe.buf
                     /\ pos' = NPOS
                ELSE /\ rp_ret' = rp_ret /\ rp_pc' = "share"
                     /\ result' = SubSeq(exe.buf, 1, p2)
                     /\ pos' = p2
    /\ UNCHANGED <<rpInputs, bsp, probes>>
    /\ UNCHANGED <<fcVars, yvVars, abVars>>

\* lines 181-184
ResolveShare ==
    /\ rp_pc = "share"
    /\ LET r == result \o StrShareBackscrub \o type \o StrSlash \o provided
       IN  /\ result' = r
           /\ probes' = Append(probes, r)
           /\ IF Readable(r)
              THEN rp_ret' = Returned(r) /\ rp_pc' = "done"
              ELSE rp_ret' = rp_ret /\ rp_pc' = "dev"
    /\ UNCHANGED <<rpInputs, bsp, pos>>
    /\ UNCHANGED <<fcVars, yvVars, abVars>>

\* lines 187-193
ResolveDev ==
    /\ rp_pc = "dev"
    /\ LET r == SubSeq(result, 1, pos) \o StrSlash \o type \o StrSlash \o provided
       IN  /\ result' = r
           /\ probes' = Append(probes, r)
           /\ IF Readable(r)
              THEN rp_ret' = Returned(r)
              ELSE rp_ret' = NotFound
    /\ rp_pc' = "done"
    /\ UNCHANGED <<rpInputs, bsp, pos>>
    /\ UNCHANGED <<fcVars, yvVars, abVars>>

NextResolve ==
    \/ ResolveUri
    \/ ResolveLiteral
    \/ ResolveSeparator
    \/ ResolvePathOpen
    \/ ResolvePathLoop
    \/ ResolveDataHome
    \/ ResolvePrefix
    \/ ResolveReadlink
    \/ ResolveShare
    \/ ResolveDev

SpecResolve == InitResolve /\ [][NextResolve]_vars

\* ---- properties of resolve_path ----
\* the roots a search-path value lists, in order: the pieces between its
\* colons (an empty value lists none, a trailing colon ends the last root)
RECURSIVE ListedRoots(_)
ListedRoots(v) ==
    IF v = <<>> THEN <<>>
    ELSE IF \A k \in 1..Len(v) : v[k] # 58 THEN <<v>>
    ELSE LET c == CHOOSE k \in 1..Len(v) : v[k] = 58 /\ \A j \in 1..(k - 1) : v[j] # 58
         IN  <<SubSeq(v, 1, c - 1)>> \o ListedRoots(SubSeq(v, c + 1, Len(v)))

\* the location of the executable without its last two segments
InstallGuess(path) ==
    LET slashes == {k \in 1..Len(path) : path[k] = 47}
        inner == slashes \ {Max(slashes)}
        cut == IF inner = {} THEN Max(slashes) ELSE Max(inner)
    IN  SubSeq(path, 1, cut - 1)

Under(root, mid) == root \o mid \o type \o <<47>> \o provided

\* the candidates of the search, in priority order; a tier whose variable
\* is unset or whose introspection failed contributes none
Candidates ==
    <<provided>>
    \o (IF env.BACKSCRUB_PATH.set
        THEN LET rs == ListedRoots(env.BACKSCRUB_PATH.val)
             IN  [k \in 1..Len(rs) |-> Under(rs[k], <<47>>)]
        ELSE <<>>)
    \o (IF env.XDG_DATA_HOME.set THEN <<Under(env.XDG_DATA_HOME.val, StrBackscrub)>>
        ELSE IF env.HOME.set
             THEN <<Under(env.HOME.val \o StrLocalShare, StrBackscrub)>>
        ELSE <<>>)
    \o <<Under(InstallPrefix, StrShareBackscrub)>>
    \o (IF exe.n >= 1 /\ exe.n < BinlocSize
        THEN <<Under(InstallGuess(exe.buf), StrShareBackscrub),
               Under(InstallGuess(exe.buf), <<47>>)>>
        ELSE <<>>)

FirstReadable(cands) ==
    LET hits == {k \in 1..Len(cands) : cands[k] \in fs}
    IN  IF hits = {} THEN NotFound ELSE Returned(cands[Min(hits)])

PlainName == ~IsUri(provided) /\ \A k \in 1..Len(provided) : provided[k] # 47

\* C1: for a name that is no URI and holds no separator, in every
\* environment and filesystem state, the result is the first readable
\* candidate of the fixed order, and not-found only when none is readable.
C1_FirstReadableCandidate ==
    (rp_pc = "done" /\ PlainName) => rp_ret = FirstReadable(Candidates)

\* the same order, in the environments where a home or data-home is known
ResolveOrderWithHome ==
    (rp_pc = "done" /\ PlainName /\ (env.XDG_DATA_HOME.set \/ env.HOME.set))
        => rp_ret = FirstReadable(Candidates)

\* C2: whatever variables are set and whether or not the executable can be
\* located, the call ends with a path or not-found; with data-home and home
\* both unset it still goes on to the install-prefix tier.
C2_NeverFails ==
    rp_pc = "done" =>
        /\ rp_ret.kind \in {"path", "nullopt"}
        /\ (/\ PlainName
            /\ ~env.XDG_DATA_HOME.set
            /\ ~env.HOME.set
            /\ \A k \in 1..Len(probes) : probes[k] \notin fs)
               => \E k \in 1..Len(probes) :
                     probes[k] = Under(InstallPrefix, StrShareBackscrub)

\* C9: a name with a separator that is no URI and not readable as given
\* yields not-found, and nothing but the name itself is ever probed.
C9_SeparatorStopsSearch ==
    (/\ \E k \in 1..Len(provided) : provided[k] = 47
     /\ ~IsUri(provided)
     /\ provided \notin fs)
        => /\ \A k \in 1..Len(probes) : probes[k] = provided
           /\ rp_pc = "done" => rp_ret = NotFound

\* "d/f" was asked for while /p/m/d/f is readable and /p is a search root
C9_Witness ==
    /\ rp_pc = "done"
    /\ provided = <<100, 47, 102>>
    /\ provided \notin fs
    /\ <<47, 112, 47, 109, 47, 100, 47, 102>> \in fs
    /\ env.BACKSCRUB_PATH = SetTo(<<47, 112, 58, 47, 113>>)
    /\ rp_ret = NotFound

====
